---- MODULE Spec2Model ----
(***************************************************************************)
(* Model of the Hamster Wheel Analyzer:                                    *)
(*   hamster_wheel_analyzer.py  frame classification, episode grouping,    *)
(*                              the min-streak cleaning pass and the       *)
(*                              timeline file;                             *)
(*   Hamster_stats.py           load_day_csv, add_interval_to_hour_bins,   *)
(*                              process_folder, avg_cumulative_curve and   *)
(*                              main.                                      *)
(* Times are whole seconds.  The analyzer is modelled for a source video   *)
(* of one frame per second, so that t_sec = frame_idx.                     *)
(***************************************************************************)
EXTENDS Integers, Sequences, FiniteSets, TLC

\* ---------------------------------------------------------------- bounds
MaxFrames == 3      \* frames the video holds after the first one
MaxStep   == 2      \* largest frame sampling step
MaxMotion == 1      \* largest motion score / motion threshold
MaxBlob   == 1      \* largest blob area / min_blob (whole pixels)
MaxStreak == 2      \* largest min_streak_sec
MaxHour   == 2      \* add_interval_to_hour_bins alone: largest whole hour of a start or duration
MaxBinCount == 3    \* add_interval_to_hour_bins alone: largest number of hour bins
MaxCalls  == 2      \* add_interval_to_hour_bins alone: calls made on one bin array
MaxFairCalls == 1   \* add_interval_to_hour_bins run to its return: calls made on one bin array
TickSec   == 1200   \* folder of one file: resolution of the episode boundaries, seconds
MaxTicks  == 4      \* folder of one file: latest episode boundary, in ticks
MaxEps    == 3      \* folder of one file: most rows of the timeline file
GroupTickSec  == 4000   \* folder of several files: resolution of the episode boundaries
MaxGroupTicks == 1      \* folder of several files: latest episode boundary, in ticks
MaxGroupEps   == 2      \* folder of several files: most rows of one timeline file
MaxDays       == 2      \* folder of several files: most timeline files
MaxSessions  == 2   \* avg_cumulative_curve: most rows of the sessions table
MaxCurveDays == 2   \* avg_cumulative_curve: most dates of the sessions table
MaxStart     == 1   \* avg_cumulative_curve: latest start_sec of a session
MaxDur       == 1   \* avg_cumulative_curve: longest session
MaxSeconds   == 3   \* avg_cumulative_curve: largest max_seconds
MaxGridStep  == 2   \* avg_cumulative_curve: largest step
MaxMainDays  == 1   \* main of Hamster_stats.py: most timeline files of a folder
LongTickSec  == 28800   \* long recording: resolution of the episode boundaries, seconds
MaxLongTicks == 3   \* long recording: latest episode boundary, in ticks
MaxLongEps   == 2   \* long recording: most cleaned episodes

\* ------------------------------------------------------------- constants
HourSec == 3600     \* width of an hour bin in seconds
CurveStepSec == 60  \* step of the cumulative curve in seconds
DaySec == 86400     \* a timedelta of DaySec seconds or more is printed with a day count

VARIABLES
    \* hamster_wheel_analyzer.py, main
    pc,             \* position of the running program
    args,           \* parsed command line: motion_thresh, min_blob, min_streak_sec
    frame_step,     \* frame sampling step (line 89)
    frame_idx,      \* index of the next frame to read
    timeline,       \* list of (t_sec, in_wheel, motion_score, blob_area)
    cur_state,      \* grouping loop: state of the current run
    start_t,        \* grouping loop: start of the current run
    gi,             \* grouping loop: index i (0-based, as in the code)
    episodes,       \* raw episodes (s, e, st)
    cleaned,        \* episodes after the min-streak pass
    total_in_wheel, \* sum of the durations of the cleaned ACTIVE episodes
    runs,           \* how often the segmentation has been started
    first_run,      \* the cleaned episodes of the first segmentation
    \* Hamster_stats.py, add_interval_to_hour_bins
    start_s,        \* argument start_s of the current call
    dur_s,          \* argument dur_s of the current call
    remaining,      \* seconds still to distribute
    cur,            \* cursor
    hour_bins,      \* the bin array; bin k is hour_bins[k + 1]
    bins_before,    \* the bin array as it was when the current call began
    ret,            \* where the current call returns to
    calls,          \* calls made so far on this bin array
    \* Hamster_stats.py, process_folder
    csv_files,      \* the timeline files of the folder, in sorted order
    df,             \* the table load_day_csv returned for the current file
    di,             \* index of the file the running loop is at
    ri,             \* index of the next IN WHEEL row of that file
    daily_rows,
    sessions_all,
    max_video_seconds,
    daily_summary,
    sessions_df,
    hours_count,
    hourly_rows,
    hourly_long,
    \* Hamster_stats.py, avg_cumulative_curve
    max_seconds,    \* argument max_seconds
    step,           \* argument step
    by_day,         \* the cumulative curve of every date handled so far
    curve,          \* the returned table of (t_sec, avg_cum_sec)
    \* Hamster_stats.py, main
    data_dir,       \* the timeline files on disk, per folder (Meds, NoMeds)
    results,        \* what the calls of process_folder returned, in call order
    avg_curves,     \* what the calls of avg_cumulative_curve returned
    outputs         \* the tables, plots and report produced so far, by name

analyzerVars == <<args, frame_step, frame_idx, timeline, cur_state, start_t, gi,
                  episodes, cleaned, total_in_wheel, runs, first_run>>

binsVars == <<start_s, dur_s, remaining, cur, hour_bins, bins_before, ret, calls>>

folderVars == <<csv_files, df, di, ri, daily_rows, sessions_all, max_video_seconds,
                daily_summary, sessions_df, hours_count, hourly_rows, hourly_long>>

curveVars == <<max_seconds, step, by_day, curve>>

mainVars == <<data_dir, results, avg_curves, outputs>>

statsVars == <<binsVars, folderVars, curveVars, mainVars>>

vars == <<pc, analyzerVars, statsVars>>

\* ---------------------------------------------------------------- helpers
Max(a, b) == IF a >= b THEN a ELSE b
Min(a, b) == IF a <= b THEN a ELSE b

Last(s) == s[Len(s)]

\* Sum of f[x] over the x in S.
RECURSIVE SetSum(_, _)
SetSum(f, S) ==
    IF S = {} THEN 0
    ELSE LET x == CHOOSE y \in S : TRUE
         IN f[x] + SetSum(f, S \ {x})

\* ======================================================================
\* hamster_wheel_analyzer.py
\* ======================================================================

\* Line 141.  blob2 is the contour area in half pixels (cv2.contourArea
\* returns multiples of 0.5); the comparison is made on the unrounded area.
InWheelOr(motion_score, blob2, a) ==
    (motion_score >= a.motion_thresh) \/ (blob2 >= 2 * a.min_blob)

InWheel(motion_score, blob2, a) ==
    (motion_score >= a.motion_thresh) /\ (blob2 >= 2 * a.min_blob)

\* int(in_wheel), int(blob_area) of line 142
BoolToInt(b) == IF b THEN 1 ELSE 0
IntOfHalf(blob2) == blob2 \div 2

\* Line 13: str(timedelta(seconds=int(seconds_float))), as the fields the
\* text has between its colons.  A field is a decimal number (digits; zero
\* padding does not change it), preceded in the first field by the text
\* "N day, " or "N days, " when the timedelta has N > 0 days (day_text = N;
\* day_text = 0 stands for no such text): 86399 is "23:59:59" and 86400 is
\* "1 day, 0:00:00".
FmtTime(seconds) ==
    LET days == seconds \div DaySec
        rest == seconds % DaySec
    IN <<[day_text |-> days, digits |-> rest \div 3600],
         [day_text |-> 0, digits |-> (rest % 3600) \div 60],
         [day_text |-> 0, digits |-> rest % 60]>>

\* Lines 15-17: "<m>m <s>s" when m > 0, otherwise "<s>s"; the text as its
\* numbers, each with the unit letter that follows it.
FmtDuration(seconds) ==
    LET m == seconds \div 60
        sec == seconds % 60
    IN IF m > 0
       THEN <<[digits |-> m, unit |-> "m"], [digits |-> sec, unit |-> "s"]>>
       ELSE <<[digits |-> sec, unit |-> "s"]>>

\* Lines 189-194: the row written for one cleaned episode.
CsvRow(s, e, st) ==
    [start_time |-> FmtTime(s),
     end_time |-> FmtTime(e),
     state |-> IF st = 1 THEN "IN WHEEL" ELSE "NOT IN WHEEL",
     duration |-> FmtDuration(e - s)]

\* Lines 186-195: the timeline file, header and one row per episode.
CsvFile(eps) ==
    [columns_ok |-> TRUE,
     rows |-> [i \in 1..Len(eps) |-> CsvRow(eps[i][1], eps[i][2], eps[i][3])]]

\* Line 167: the episode closed at a state change ends at the time of the
\* sample that changed the state.
ClosedEpisodePrev(tl, i, s, st) == <<s, tl[i].t_sec, st>>

ClosedEpisodeFlip(tl, i, s, st) == <<s, tl[i + 1].t_sec, tl[i + 1].in_wheel>>

ClosedEpisode(tl, i, s, st) == <<s, tl[i + 1].t_sec, st>>

\* Line 170: the final episode ends at the time of the last sample.
FinalEpisodeFirst(tl, s, st) == <<s, tl[1].t_sec, st>>

FinalEpisode(tl, s, st) == <<s, tl[Len(tl)].t_sec, st>>

\* Line 176: the test of the min-streak pass.
IsShortStreakLe(s, e, st, min_len) == st = 1 /\ (e - s) <= min_len

IsShortStreak(s, e, st, min_len) == st = 1 /\ (e - s) < min_len

\* Line 182: sum(e - s for s, e, st in cleaned if st == 1)
RECURSIVE SumInWheel(_)
SumInWheel(eps) ==
    IF eps = <<>> THEN 0
    ELSE (IF eps[1][3] = 1 THEN eps[1][2] - eps[1][1] ELSE 0)
         + SumInWheel(Tail(eps))

AnalyzerInit ==
    /\ pc = "read"
    /\ args \in [motion_thresh : 0..MaxMotion,
                 min_blob : 0..MaxBlob,
                 min_streak_sec : 0..MaxStreak]
    /\ frame_step \in 1..MaxStep
    /\ frame_idx = 0
    /\ timeline = <<>>
    /\ cur_state = 0
    /\ start_t = 0
    /\ gi = 0
    /\ episodes = <<>>
    /\ cleaned = <<>>
    /\ total_in_wheel = 0
    /\ runs = 1
    /\ first_run = <<>>

\* The variables a specification does not use.
AnalyzerIdle ==
    /\ args = [motion_thresh |-> 0, min_blob |-> 0, min_streak_sec |-> 0]
    /\ frame_step = 1
    /\ frame_idx = 0
    /\ timeline = <<>>
    /\ cur_state = 0
    /\ start_t = 0
    /\ gi = 0
    /\ episodes = <<>>
    /\ cleaned = <<>>
    /\ total_in_wheel = 0
    /\ runs = 1
    /\ first_run = <<>>

BinsIdle ==
    /\ start_s = 0
    /\ dur_s = 0
    /\ remaining = 0
    /\ cur = 0
    /\ hour_bins = <<>>
    /\ bins_before = <<>>
    /\ ret = "idle"
    /\ calls = 0

FolderIdle ==
    /\ csv_files = <<>>
    /\ df = <<>>
    /\ di = 0
    /\ ri = 0
    /\ daily_rows = <<>>
    /\ sessions_all = <<>>
    /\ max_video_seconds = 0
    /\ daily_summary = <<>>
    /\ sessions_df = <<>>
    /\ hours_count = 0
    /\ hourly_rows = <<>>
    /\ hourly_long = <<>>

CurveIdle ==
    /\ max_seconds = 0
    /\ step = 1
    /\ by_day = <<>>
    /\ curve = <<>>

MainIdle ==
    /\ data_dir = [Meds |-> <<>>, NoMeds |-> <<>>]
    /\ results = <<>>
    /\ avg_curves = <<>>
    /\ outputs = <<>>

\* Lines 102-109: a frame that is not sampled.
SkipFrame ==
    /\ pc = "read"
    /\ frame_idx < MaxFrames
    /\ frame_idx % frame_step # 0
    /\ frame_idx' = frame_idx + 1
    /\ UNCHANGED <<pc, args, frame_step, timeline, cur_state, start_t, gi,
                   episodes, cleaned, total_in_wheel, runs, first_run>>
    /\ UNCHANGED statsVars

\* Lines 111-153: a sampled frame.  The motion score of the first sampled
\* frame is 0.0 (prev_gray_roi is None); the later scores and every blob
\* area come from the image pipeline.
SampleFrame ==
    /\ pc = "read"
    /\ frame_idx < MaxFrames
    /\ frame_idx % frame_step = 0
    /\ \E m \in 0..MaxMotion, blob2 \in 0..(2 * MaxBlob + 1) :
         LET motion_score == IF timeline = <<>> THEN 0 ELSE m
             in_wheel == InWheel(motion_score, blob2, args)
         IN timeline' = Append(timeline,
                [t_sec |-> frame_idx,
                 in_wheel |-> BoolToInt(in_wheel),
                 motion_score |-> motion_score,
                 blob_area |-> IntOfHalf(blob2)])
    /\ frame_idx' = frame_idx + 1
    /\ UNCHANGED <<pc, args, frame_step, cur_state, start_t, gi,
                   episodes, cleaned, total_in_wheel, runs, first_run>>
    /\ UNCHANGED statsVars

\* Lines 102-104 and 114-116: the read fails (end of the video) or the ROI
\* is out of bounds; either way the loop is left.
BreakLoop ==
    /\ pc = "read"
    /\ pc' = "group"
    /\ UNCHANGED analyzerVars
    /\ UNCHANGED statsVars

\* Lines 160-163.
GroupInit ==
    /\ pc = "group"
    /\ episodes' = <<>>
    /\ IF timeline # <<>>
       THEN /\ cur_state' = timeline[1].in_wheel
            /\ start_t' = timeline[1].t_sec
            /\ gi' = 1
            /\ pc' = "group_loop"
       ELSE /\ UNCHANGED <<cur_state, start_t, gi>>
            /\ pc' = "clean"
    /\ UNCHANGED <<args, frame_step, frame_idx, timeline, cleaned, total_in_wheel,
                   runs, first_run>>
    /\ UNCHANGED statsVars

\* A grouping loop that closes an episode at every sample.
StateChangedAlways(state, open_state) == TRUE
\* Line 166: an episode is closed only where the state differs from the
\* state of the open episode.
StateChanged(state, open_state) == state # open_state

\* Lines 164-169: one iteration of the grouping loop.
GroupStep ==
    /\ pc = "group_loop"
    /\ gi < Len(timeline)
    /\ LET state == timeline[gi + 1].in_wheel
       IN IF StateChanged(state, cur_state)
          THEN /\ episodes' = Append(episodes,
                                ClosedEpisode(timeline, gi, start_t, cur_state))
               /\ start_t' = timeline[gi + 1].t_sec
               /\ cur_state' = state
          ELSE UNCHANGED <<episodes, start_t, cur_state>>
    /\ gi' = gi + 1
    /\ UNCHANGED <<pc, args, frame_step, frame_idx, timeline, cleaned, total_in_wheel,
                   runs, first_run>>
    /\ UNCHANGED statsVars

\* Line 170: the final episode.
GroupFinish ==
    /\ pc = "group_loop"
    /\ gi = Len(timeline)
    /\ episodes' = Append(episodes, FinalEpisode(timeline, start_t, cur_state))
    /\ pc' = "clean"
    /\ UNCHANGED <<args, frame_step, frame_idx, timeline, cur_state, start_t, gi,
                   cleaned, total_in_wheel, runs, first_run>>
    /\ UNCHANGED statsVars

\* Lines 173-179: one iteration of the min-streak pass.
CleanStep ==
    /\ pc = "clean"
    /\ Len(cleaned) < Len(episodes)
    /\ LET ep == episodes[Len(cleaned) + 1]
           s == ep[1]
           e == ep[2]
           st == ep[3]
       IN cleaned' = Append(cleaned,
              IF IsShortStreak(s, e, st, args.min_streak_sec)
              THEN <<s, e, 0>>
              ELSE <<s, e, st>>)
    /\ UNCHANGED <<pc, args, frame_step, frame_idx, timeline, cur_state, start_t, gi,
                   episodes, total_in_wheel, runs, first_run>>
    /\ UNCHANGED statsVars

\* Line 182: the total, once the pass is over.
Totals ==
    /\ pc = "clean"
    /\ Len(cleaned) = Len(episodes)
    /\ total_in_wheel' = SumInWheel(cleaned)
    /\ pc' = "done"
    /\ UNCHANGED <<args, frame_step, frame_idx, timeline, cur_state, start_t, gi,
                   episodes, cleaned, runs, first_run>>
    /\ UNCHANGED statsVars

\* Lines 185-195: the timeline file is written; it is the one file of the
\* folder the statistics are later run on.
WriteCsv ==
    /\ pc = "done"
    /\ csv_files' = <<CsvFile(cleaned)>>
    /\ pc' = "written"
    /\ UNCHANGED <<analyzerVars, mainVars, binsVars, curveVars>>
    /\ UNCHANGED <<df, di, ri, daily_rows, sessions_all, max_video_seconds,
                   daily_summary, sessions_df, hours_count, hourly_rows,
                   hourly_long>>

Init == AnalyzerInit /\ BinsIdle /\ FolderIdle /\ CurveIdle /\ MainIdle

Next ==
    \/ SkipFrame
    \/ SampleFrame
    \/ BreakLoop
    \/ GroupInit
    \/ GroupStep
    \/ GroupFinish
    \/ CleanStep
    \/ Totals
    \/ WriteCsv

Spec == Init /\ [][Next]_vars

\* ----------------------------- the segmentation run on its own output
\* The state, at second t, of an episode list: that of the episode that
\* covers t, and that of the final episode at the end of the recording.
StateAt(eps, t) ==
    IF \E i \in 1..Len(eps) : eps[i][1] <= t /\ t < eps[i][2]
    THEN eps[CHOOSE i \in 1..Len(eps) : eps[i][1] <= t /\ t < eps[i][2]][3]
    ELSE eps[Len(eps)][3]

\* An episode list expanded back into one sample per second.
PerSecondSamples(eps) ==
    IF eps = <<>> THEN <<>>
    ELSE [k \in 1..(eps[Len(eps)][2] - eps[1][1] + 1) |->
             [t_sec |-> eps[1][1] + k - 1,
              in_wheel |-> StateAt(eps, eps[1][1] + k - 1)]]

\* The emitted episodes of a finished run become the samples of a second
\* run of lines 159-182.
Reconstruct ==
    /\ pc = "done"
    /\ runs = 1
    /\ first_run' = cleaned
    /\ timeline' = PerSecondSamples(cleaned)
    /\ runs' = 2
    /\ episodes' = <<>>
    /\ cleaned' = <<>>
    /\ total_in_wheel' = 0
    /\ pc' = "group"
    /\ UNCHANGED <<args, frame_step, frame_idx, cur_state, start_t, gi>>
    /\ UNCHANGED statsVars

NextRerun ==
    \/ Next
    \/ Reconstruct

SpecRerun == Init /\ [][NextRerun]_vars

\* ======================================================================
\* Hamster_stats.py: add_interval_to_hour_bins
\* ======================================================================

\* Line 87: the seconds that go to the current hour.
SpillWhole(rem, c, hour_end) == Min(rem, HourSec)

SpillAll(rem, c, hour_end) == rem

\* A split that stops one second short of the end of the hour.
SpillBeforeEnd(rem, c, hour_end) == Min(rem, hour_end - c - 1)

Spill(rem, c, hour_end) == Min(rem, hour_end - c)

\* Line 88: the guard of the write.
InBinsLe(hour_index, bins) == hour_index <= Len(bins)

InBins(hour_index, bins) == hour_index < Len(bins)

\* np.zeros(n, dtype=np.int64)
Zeros(n) == [k \in 1..n |-> 0]

\* Lines 81-82: entry of the function.
EnterAddInterval(s, d, back) ==
    /\ start_s' = s
    /\ dur_s' = d
    /\ remaining' = d
    /\ cur' = s
    /\ bins_before' = hour_bins
    /\ ret' = back
    /\ pc' = "add_interval"

\* Lines 83-91: one iteration of the while loop.  Writing hour_bins at an
\* index that is not in the array raises IndexError.
AddIntervalStep ==
    /\ pc = "add_interval"
    /\ remaining > 0
    /\ LET hour_index == cur \div HourSec
           hour_start == hour_index * HourSec
           hour_end == hour_start + HourSec
           spill == Spill(remaining, cur, hour_end)
       IN IF InBins(hour_index, hour_bins)
             /\ (hour_index + 1) \notin DOMAIN hour_bins
          THEN /\ pc' = "IndexError"
               /\ UNCHANGED <<hour_bins, remaining, cur>>
          ELSE /\ hour_bins' =
                    IF InBins(hour_index, hour_bins)
                    THEN [hour_bins EXCEPT ![hour_index + 1] = @ + spill]
                    ELSE hour_bins
               /\ remaining' = remaining - spill
               /\ cur' = cur + spill
               /\ pc' = pc
    /\ UNCHANGED <<start_s, dur_s, bins_before, ret, calls>>
    /\ UNCHANGED <<analyzerVars, mainVars, folderVars, curveVars>>

\* Line 83: the loop condition fails and the function returns.
AddIntervalReturn ==
    /\ pc = "add_interval"
    /\ remaining <= 0
    /\ pc' = ret
    /\ UNCHANGED <<analyzerVars, mainVars, binsVars, folderVars, curveVars>>

\* ------------------------------------------- the function on its own
StartPoints == {h * HourSec + o : h \in 0..MaxHour, o \in {0, 100, 3500}}
DurPoints   == {h * HourSec + o : h \in 0..MaxHour, o \in {0, 100, 200}}

BinsInit ==
    /\ pc = "idle"
    /\ start_s = 0
    /\ dur_s = 0
    /\ remaining = 0
    /\ cur = 0
    /\ hour_bins \in {Zeros(n) : n \in 1..MaxBinCount}
    /\ bins_before = hour_bins
    /\ ret = "idle"
    /\ calls = 0

\* A caller adds one more interval to the bin array.
BinsCall ==
    /\ pc = "idle"
    /\ calls < MaxCalls
    /\ \E s \in StartPoints, d \in DurPoints : EnterAddInterval(s, d, "idle")
    /\ calls' = calls + 1
    /\ UNCHANGED hour_bins
    /\ UNCHANGED <<analyzerVars, mainVars, folderVars, curveVars>>

InitBins == BinsInit /\ AnalyzerIdle /\ FolderIdle /\ CurveIdle /\ MainIdle

NextBins ==
    \/ BinsCall
    \/ AddIntervalStep
    \/ AddIntervalReturn

SpecBins == InitBins /\ [][NextBins]_vars

\* The function is sequential code: once called, the loop keeps taking its
\* next iteration while the condition of line 83 holds, and the function
\* returns when it fails.  The caller is under no obligation to call.
BinsCallFair ==
    /\ calls < MaxFairCalls
    /\ BinsCall

NextBinsFair ==
    \/ BinsCallFair
    \/ AddIntervalStep
    \/ AddIntervalReturn

SpecBinsFair ==
    /\ InitBins
    /\ [][NextBinsFair]_vars
    /\ WF_vars(AddIntervalStep)
    /\ WF_vars(AddIntervalReturn)

\* ======================================================================
\* Hamster_stats.py: load_day_csv, process_folder
\* ======================================================================

\* A number that the code holds as a float, kept exact as num / den.
Frac(n, d) == [num |-> n, den |-> d]

\* math.ceil(a / b) for a >= 0, b > 0
CeilDiv(a, b) == (a + b - 1) \div b

\* The number a run of decimal digits followed by the digits of n reads as.
RECURSIVE DecShift(_)
DecShift(n) == IF n < 10 THEN 10 ELSE 10 * DecShift(n \div 10)

RECURSIVE DigitsOnly(_)
DigitsOnly(val) ==
    IF Len(val) = 0 THEN 0
    ELSE LET front == DigitsOnly(SubSeq(val, 1, Len(val) - 1))
         IN front * DecShift(Last(val).digits) + Last(val).digits

\* Lines 24-45, for a text made of numbers each followed by a unit letter
\* ("m", "s" or "" for none; blanks are removed at line 32).  The pattern
\* of line 37 takes an optional "<n>m" and then an optional "<n>s" or
\* "<n>"; any other text is read as the integer its digits spell.
ParseDuration(val) ==
    LET matches ==
            \/ Len(val) = 0
            \/ Len(val) = 1
            \/ Len(val) = 2 /\ val[1].unit = "m" /\ val[2].unit # "m"
        mins == IF Len(val) >= 1 /\ val[1].unit = "m" THEN val[1].digits ELSE 0
        secs == IF Len(val) >= 1 /\ Last(val).unit # "m" THEN Last(val).digits ELSE 0
    IN IF matches THEN mins * 60 + secs ELSE DigitsOnly(val)

\* Line 51: int(x) raises ValueError for a field that is not a plain
\* number, and the unpacking raises it unless there are three fields.
HmsRaises(hms) ==
    Len(hms) # 3 \/ \E i \in 1..Len(hms) : hms[i].day_text # 0

\* Lines 47-52, for a text on which they do not raise.
ParseHmsToSeconds(hms) ==
    hms[1].digits * 3600 + hms[2].digits * 60 + hms[3].digits

\* Lines 59-68: load_day_csv raises ValueError for a file without the
\* expected columns (line 63) or with a time that cannot be parsed
\* (lines 65-66).
LoadRaises(file) ==
    \/ ~file.columns_ok
    \/ \E i \in 1..Len(file.rows) :
          HmsRaises(file.rows[i].start_time) \/ HmsRaises(file.rows[i].end_time)

\* Lines 59-68: the table load_day_csv returns when it does not raise.
LoadDayCsv(file) ==
    [i \in 1..Len(file.rows) |->
        [start_sec |-> ParseHmsToSeconds(file.rows[i].start_time),
         end_sec |-> ParseHmsToSeconds(file.rows[i].end_time),
         duration_seconds |-> ParseDuration(file.rows[i].duration),
         state |-> file.rows[i].state]]

\* Line 118 (and 153): the IN WHEEL rows of a day.
InWheelRowsAll(table) == table

InWheelRows(table) == SelectSeq(table, LAMBDA r : r.state = "IN WHEEL")

\* in_wheel["duration_seconds"].sum()
RECURSIVE SumDuration(_)
SumDuration(rows) ==
    IF rows = <<>> THEN 0
    ELSE rows[1].duration_seconds + SumDuration(Tail(rows))

\* in_wheel["duration_seconds"].max(), of a table that has rows
RECURSIVE MaxDuration(_)
MaxDuration(rows) ==
    IF Len(rows) = 1 THEN rows[1].duration_seconds
    ELSE Max(rows[1].duration_seconds, MaxDuration(Tail(rows)))

\* Line 127: df["end_sec"].max(), 0 for a table without rows.
RECURSIVE MaxEndSec(_)
MaxEndSec(rows) ==
    IF rows = <<>> THEN 0
    ELSE Max(rows[1].end_sec, MaxEndSec(Tail(rows)))

DayMaxEndInWheel(table) == MaxEndSec(InWheelRows(table))

DayMaxEnd(table) == IF table # <<>> THEN MaxEndSec(table) ELSE 0

\* Line 149.
HoursCountFloor(m) == Max(1, m \div HourSec)

HoursCount(m) == Max(1, CeilDiv(m, HourSec))

\* Lines 121-124 and 131-138: the daily summary row.
DailyRow(date, in_wheel) ==
    LET total_s == SumDuration(in_wheel)
        n == Len(in_wheel)
    IN [date |-> date,
        total_running_time_s |-> total_s,
        total_running_time_min |-> Frac(total_s, 60),
        episodes |-> n,
        avg_episode_duration_s |->
            IF n > 0 THEN Frac(SumDuration(in_wheel), n) ELSE Frac(0, 1),
        longest_episode_s |-> IF n > 0 THEN MaxDuration(in_wheel) ELSE 0]

\* Lines 141-142: the IN WHEEL rows of a day, tagged with its date.
Tagged(rows, date) ==
    [i \in 1..Len(rows) |->
        [start_sec |-> rows[i].start_sec,
         end_sec |-> rows[i].end_sec,
         duration_seconds |-> rows[i].duration_seconds,
         state |-> rows[i].state,
         date |-> date]]

\* pd.concat(sessions_all, ignore_index=True)
RECURSIVE Concat(_)
Concat(tables) ==
    IF tables = <<>> THEN <<>> ELSE tables[1] \o Concat(Tail(tables))

\* sort_values: the rows in the order of their keys (pairs, compared
\* lexicographically); rows with equal keys keep their order.
PairLess(a, b) == a[1] < b[1] \/ (a[1] = b[1] /\ a[2] < b[2])

RECURSIVE InsertKeyed(_, _)
InsertKeyed(x, sorted) ==
    IF sorted = <<>> THEN <<x>>
    ELSE IF ~PairLess(sorted[1].key, x.key) THEN <<x>> \o sorted
         ELSE <<sorted[1]>> \o InsertKeyed(x, Tail(sorted))

RECURSIVE SortKeyed(_, _)
SortKeyed(rows, keys) ==
    IF rows = <<>> THEN <<>>
    ELSE InsertKeyed([key |-> keys[1], row |-> rows[1]],
                     SortKeyed(Tail(rows), Tail(keys)))

RECURSIVE RowsOfKeyed(_)
RowsOfKeyed(keyed) ==
    IF keyed = <<>> THEN <<>>
    ELSE <<keyed[1].row>> \o RowsOfKeyed(Tail(keyed))

SortValues(rows, keys) == RowsOfKeyed(SortKeyed(rows, keys))

\* Line 158: the duration handed to add_interval_to_hour_bins.
RowDurEnd(row) == row.end_sec

RowDur(row) == row.duration_seconds

\* Lines 161-166: the hourly rows of one day.
HourlyRowsOf(date, bins, n) ==
    [hr \in 1..n |-> [date |-> date, hour |-> hr - 1, active_seconds |-> bins[hr]]]

\* ------------------------------------------------ the timeline files
\* A timeline file as the analyzer writes it: contiguous episodes from
\* t = 0, every episode but the last of positive length, no two ACTIVE
\* episodes in a row (raw episodes alternate and the min-streak pass only
\* turns ACTIVE into INACTIVE).
EndTicks(n, max_ticks) ==
    {b \in [1..n -> 0..max_ticks] :
        /\ \A i \in 1..(n - 1) : b[i] > (IF i = 1 THEN 0 ELSE b[i - 1])
        /\ n > 1 => b[n] >= b[n - 1]}

StateLabels(n) ==
    {st \in [1..n -> {0, 1}] :
        \A i \in 1..(n - 1) : ~(st[i] = 1 /\ st[i + 1] = 1)}

TimelineRow(s, e, st) == CsvRow(s, e, st)

TimelineRows(tick, max_ticks, max_eps) ==
    UNION {{[i \in 1..n |->
                TimelineRow(tick * (IF i = 1 THEN 0 ELSE b[i - 1]),
                            tick * b[i], st[i])] :
             b \in EndTicks(n, max_ticks), st \in StateLabels(n)} : n \in 0..max_eps}

\* columns_ok is FALSE for a file that lacks one of the required columns.
TimelineFiles(tick, max_ticks, max_eps) ==
    {[columns_ok |-> TRUE, rows |-> r] : r \in TimelineRows(tick, max_ticks, max_eps)}
    \cup {[columns_ok |-> FALSE, rows |-> <<>>]}

\* A folder of up to MaxDays files.
GroupFolders ==
    UNION {[1..n -> TimelineFiles(GroupTickSec, MaxGroupTicks, MaxGroupEps)] :
           n \in 0..MaxDays}

\* A folder of one file.
DayFolders == [1..1 -> TimelineFiles(TickSec, MaxTicks, MaxEps)]

FolderInit(folders) ==
    /\ pc = "process_folder"
    /\ csv_files \in folders
    /\ df = <<>>
    /\ di = 0
    /\ ri = 0
    /\ daily_rows = <<>>
    /\ sessions_all = <<>>
    /\ max_video_seconds = 0
    /\ daily_summary = <<>>
    /\ sessions_df = <<>>
    /\ hours_count = 0
    /\ hourly_rows = <<>>
    /\ hourly_long = <<>>

\* Lines 102-111: no file, return empty tables; otherwise start the loop.
FolderStart ==
    /\ pc = "process_folder"
    /\ IF csv_files = <<>>
       THEN /\ pc' = "returned"
            /\ di' = di
       ELSE /\ pc' = "loop1"
            /\ di' = 1
    /\ UNCHANGED <<ri, csv_files, df, daily_rows, sessions_all, max_video_seconds,
                   daily_summary, sessions_df, hours_count, hourly_rows,
                   hourly_long>>
    /\ UNCHANGED <<analyzerVars, mainVars, binsVars, curveVars>>

\* Lines 113-143: one day of the first loop.
FolderDayStats ==
    /\ pc = "loop1"
    /\ di <= Len(csv_files)
    /\ ~LoadRaises(csv_files[di])
    /\ df' = LoadDayCsv(csv_files[di])
    /\ LET date == di
           in_wheel == InWheelRows(df')
           day_max_end == DayMaxEnd(df')
       IN /\ max_video_seconds' =
                IF day_max_end > max_video_seconds
                THEN day_max_end ELSE max_video_seconds
          /\ daily_rows' = Append(daily_rows, DailyRow(date, in_wheel))
          /\ sessions_all' =
                IF in_wheel # <<>>
                THEN Append(sessions_all, Tagged(in_wheel, date))
                ELSE sessions_all
    /\ di' = di + 1
    /\ UNCHANGED <<pc, ri, csv_files, daily_summary, sessions_df, hours_count,
                   hourly_rows, hourly_long>>
    /\ UNCHANGED <<analyzerVars, mainVars, binsVars, curveVars>>

\* Lines 62-66, reached from line 115: load_day_csv raises ValueError and
\* nothing catches it.
FolderLoadError ==
    /\ pc = "loop1"
    /\ di <= Len(csv_files)
    /\ LoadRaises(csv_files[di])
    /\ pc' = "ValueError"
    /\ UNCHANGED <<analyzerVars, mainVars, binsVars, folderVars, curveVars>>

\* Lines 145-149: the tables of the first loop and the number of hours.
FolderHours ==
    /\ pc = "loop1"
    /\ di > Len(csv_files)
    /\ daily_summary' =
          SortValues(daily_rows,
                     [i \in 1..Len(daily_rows) |-> <<daily_rows[i].date, 0>>])
    /\ sessions_df' = Concat(sessions_all)
    /\ hours_count' = HoursCount(max_video_seconds)
    /\ di' = 1
    /\ pc' = "loop2"
    /\ UNCHANGED <<ri, csv_files, df, daily_rows, sessions_all, max_video_seconds,
                   hourly_rows, hourly_long>>
    /\ UNCHANGED <<analyzerVars, mainVars, binsVars, curveVars>>

\* Lines 150-155: a day of the second loop starts with empty bins.
FolderDayBins ==
    /\ pc = "loop2"
    /\ di <= Len(csv_files)
    /\ df' = LoadDayCsv(csv_files[di])
    /\ hour_bins' = Zeros(hours_count)
    /\ ri' = 1
    /\ pc' = "rows"
    /\ UNCHANGED <<start_s, dur_s, remaining, cur, bins_before, ret, calls>>
    /\ UNCHANGED <<csv_files, di, daily_rows, sessions_all, max_video_seconds,
                   daily_summary, sessions_df, hours_count, hourly_rows,
                   hourly_long>>
    /\ UNCHANGED <<analyzerVars, mainVars, curveVars>>

\* Lines 156-159: the next IN WHEEL row of the day goes to the bins.
FolderRowCall ==
    /\ pc = "rows"
    /\ LET in_wheel == InWheelRows(df)
       IN /\ ri <= Len(in_wheel)
          /\ EnterAddInterval(in_wheel[ri].start_sec, RowDur(in_wheel[ri]),
                              "rows")
    /\ ri' = ri + 1
    /\ UNCHANGED <<hour_bins, calls>>
    /\ UNCHANGED <<csv_files, df, di, daily_rows, sessions_all, max_video_seconds,
                   daily_summary, sessions_df, hours_count, hourly_rows,
                   hourly_long>>
    /\ UNCHANGED <<analyzerVars, mainVars, curveVars>>

\* Lines 161-166: the rows of the day are exhausted; its bins are emitted.
FolderDayEmit ==
    /\ pc = "rows"
    /\ ri > Len(InWheelRows(df))
    /\ hourly_rows' = hourly_rows \o HourlyRowsOf(di, hour_bins, hours_count)
    /\ di' = di + 1
    /\ pc' = "loop2"
    /\ UNCHANGED <<ri, csv_files, df, daily_rows, sessions_all, max_video_seconds,
                   daily_summary, sessions_df, hours_count, hourly_long>>
    /\ UNCHANGED <<analyzerVars, mainVars, binsVars, curveVars>>

\* Lines 168-169.
FolderReturn ==
    /\ pc = "loop2"
    /\ di > Len(csv_files)
    /\ hourly_long' =
          SortValues(hourly_rows,
                     [i \in 1..Len(hourly_rows) |->
                         <<hourly_rows[i].date, hourly_rows[i].hour>>])
    /\ pc' = "returned"
    /\ UNCHANGED <<di, ri, csv_files, df, daily_rows, sessions_all, max_video_seconds,
                   daily_summary, sessions_df, hours_count, hourly_rows>>
    /\ UNCHANGED <<analyzerVars, mainVars, binsVars, curveVars>>

InitFolder ==
    FolderInit(GroupFolders) /\ AnalyzerIdle /\ BinsIdle /\ CurveIdle /\ MainIdle

NextFolder ==
    \/ FolderStart
    \/ FolderDayStats
    \/ FolderLoadError
    \/ FolderHours
    \/ FolderDayBins
    \/ FolderRowCall
    \/ AddIntervalStep
    \/ AddIntervalReturn
    \/ FolderDayEmit
    \/ FolderReturn

SpecFolder == InitFolder /\ [][NextFolder]_vars

\* ------------------ the analyzer's timeline file read by process_folder
\* The cleaned episodes of a long recording: contiguous from t = 0, every
\* episode but the last of positive length, no two ACTIVE episodes in a row.
LongEpisodes ==
    UNION {{[i \in 1..n |->
                <<LongTickSec * (IF i = 1 THEN 0 ELSE b[i - 1]),
                  LongTickSec * b[i], st[i]>>] :
             b \in EndTicks(n, MaxLongTicks), st \in StateLabels(n)} :
           n \in 0..MaxLongEps}

\* The analyzer at line 185, the segmentation done.  From there on it reads
\* cleaned only; the samples of the recording are not represented.
InitRoundTrip ==
    /\ pc = "done"
    /\ args = [motion_thresh |-> 0, min_blob |-> 0, min_streak_sec |-> 0]
    /\ frame_step = 1
    /\ frame_idx = 0
    /\ timeline = <<>>
    /\ cur_state = 0
    /\ start_t = 0
    /\ gi = 0
    /\ cleaned \in LongEpisodes
    /\ episodes = cleaned
    /\ total_in_wheel = SumInWheel(cleaned)
    /\ runs = 1
    /\ first_run = <<>>
    /\ BinsIdle /\ FolderIdle /\ CurveIdle /\ MainIdle

\* Hamster_stats.py, line 366: process_folder is run on the folder that
\* holds the written file.
StatsStart ==
    /\ pc = "written"
    /\ pc' = "process_folder"
    /\ UNCHANGED <<analyzerVars, statsVars>>

NextRoundTrip ==
    \/ WriteCsv
    \/ StatsStart
    \/ NextFolder

SpecRoundTrip == InitRoundTrip /\ [][NextRoundTrip]_vars

\* process_folder on a folder that holds one timeline file.
InitDay ==
    FolderInit(DayFolders) /\ AnalyzerIdle /\ BinsIdle /\ CurveIdle /\ MainIdle

SpecDay == InitDay /\ [][NextFolder]_vars

\* ======================================================================
\* Hamster_stats.py: avg_cumulative_curve
\* ======================================================================

\* np.arange(a, b, st) for integers, st > 0
Arange(a, b, st) ==
    [i \in 1..(IF b > a THEN CeilDiv(b - a, st) ELSE 0) |-> a + (i - 1) * st]

\* Lines 183 and 206: the grid.
TSamplesShort(max_s, st) == Arange(0, max_s, st)

TSamples(max_s, st) == Arange(0, max_s + st, st)

\* active[s_idx:e_idx] += v, indices from 0; a slice past the end of the
\* array is cut at the end.
AddSliceInclusive(active, s_idx, e_idx, v) ==
    [i \in DOMAIN active |->
        IF s_idx <= i - 1 /\ i - 1 <= e_idx THEN active[i] + v ELSE active[i]]

AddSlice(active, s_idx, e_idx, v) ==
    [i \in DOMAIN active |->
        IF s_idx <= i - 1 /\ i - 1 < e_idx THEN active[i] + v ELSE active[i]]

\* Lines 187-198: the rows of one date added to the grid, in order.
RECURSIVE FillActive(_, _, _, _)
FillActive(active, rows, max_s, st) ==
    IF rows = <<>> THEN active
    ELSE LET start == rows[1].start_sec
             dur == rows[1].duration_seconds
             end == Min(max_s, start + dur)
             s_idx == start \div st
             e_idx == end \div st
         IN IF end <= start
            THEN FillActive(active, Tail(rows), max_s, st)
            ELSE FillActive(AddSlice(active, s_idx, e_idx, st),
                            Tail(rows), max_s, st)

\* np.cumsum: the running sums of a[lo..hi], acc being the sum of what
\* comes before lo (the array is halved to keep the recursion shallow).
RECURSIVE CumSumFrom(_, _, _, _)
CumSumFrom(a, lo, hi, acc) ==
    IF lo > hi THEN <<>>
    ELSE IF lo = hi THEN <<acc + a[lo]>>
    ELSE LET mid == (lo + hi) \div 2
             left == CumSumFrom(a, lo, mid, acc)
         IN left \o CumSumFrom(a, mid + 1, hi, Last(left))

CumSumNone(a) == a

CumSum(a) == CumSumFrom(a, 1, Len(a), 0)

\* The dates of the sessions table in the order groupby visits them.
GroupDates(table) ==
    SortValues([i \in 1..Len(table) |-> table[i].date],
               [i \in 1..Len(table) |-> <<table[i].date, 0>>])

RECURSIVE Distinct(_)
Distinct(sq) ==
    IF sq = <<>> THEN <<>>
    ELSE IF Len(sq) > 1 /\ sq[1] = sq[2] THEN Distinct(Tail(sq))
         ELSE <<sq[1]>> \o Distinct(Tail(sq))

GroupKeys(table) == Distinct(GroupDates(table))

\* Lines 204-206: the mean of the curves, cell by cell, with the grid.
RECURSIVE ColumnSum(_, _)
ColumnSum(curves, i) ==
    IF curves = <<>> THEN 0
    ELSE curves[1].cum[i] + ColumnSum(Tail(curves), i)

AverageCurve(curves, max_s, st) ==
    LET t_samples == TSamples(max_s, st)
        days == Len(curves)
    IN [i \in 1..Len(t_samples) |->
           [t_sec |-> t_samples[i],
            avg_cum_sec |-> Frac(ColumnSum(curves, i), days)]]

SessionRows ==
    {[start_sec |-> s, end_sec |-> s + d, duration_seconds |-> d,
      state |-> "IN WHEEL", date |-> dt] :
        s \in 0..MaxStart, d \in 0..MaxDur, dt \in 1..MaxCurveDays}

CurveInit ==
    /\ pc = "avg_cumulative_curve"
    /\ sessions_df \in UNION {{table \in [1..n -> SessionRows] :
                                  \A i \in 1..(n - 1) : table[i].date <= table[i + 1].date} :
                              n \in 0..MaxSessions}
    /\ max_seconds \in 0..MaxSeconds
    /\ step \in 1..MaxGridStep
    /\ by_day = <<>>
    /\ curve = <<>>
    /\ csv_files = <<>>
    /\ df = <<>>
    /\ di = 0
    /\ ri = 0
    /\ daily_rows = <<>>
    /\ sessions_all = <<>>
    /\ max_video_seconds = 0
    /\ daily_summary = <<>>
    /\ hours_count = 0
    /\ hourly_rows = <<>>
    /\ hourly_long = <<>>

\* Line 176: sessions_df.empty
EmptyTableNever(table) == FALSE

EmptyTable(table) == table = <<>>

\* Lines 176-180: an empty table gives an empty series.
CurveStart ==
    /\ pc = "avg_cumulative_curve"
    /\ pc' = IF EmptyTable(sessions_df) THEN "curve_returned" ELSE "curve_days"
    /\ by_day' = <<>>
    /\ curve' = <<>>
    /\ UNCHANGED <<max_seconds, step>>
    /\ UNCHANGED <<analyzerVars, mainVars, binsVars, folderVars>>

\* Lines 181-201: the curve of the next date.
CurveDay ==
    /\ pc = "curve_days"
    /\ Len(by_day) < Len(GroupKeys(sessions_df))
    /\ LET date == GroupKeys(sessions_df)[Len(by_day) + 1]
           group == SelectSeq(sessions_df, LAMBDA r : r.date = date)
           t_samples == TSamples(max_seconds, step)
           active == FillActive([i \in DOMAIN t_samples |-> 0], group,
                                max_seconds, step)
           cum == CumSum(active)
       IN by_day' = Append(by_day, [date |-> date, cum |-> cum])
    /\ UNCHANGED <<pc, max_seconds, step, curve>>
    /\ UNCHANGED <<analyzerVars, mainVars, binsVars, folderVars>>

\* Lines 204-206: the average over the dates and the returned table.
CurveAverage ==
    /\ pc = "curve_days"
    /\ Len(by_day) = Len(GroupKeys(sessions_df))
    /\ curve' = AverageCurve(by_day, max_seconds, step)
    /\ pc' = "curve_returned"
    /\ UNCHANGED <<max_seconds, step, by_day>>
    /\ UNCHANGED <<analyzerVars, mainVars, binsVars, folderVars>>

InitCurve == CurveInit /\ AnalyzerIdle /\ BinsIdle /\ MainIdle

NextCurve ==
    \/ CurveStart
    \/ CurveDay
    \/ CurveAverage

SpecCurve == InitCurve /\ [][NextCurve]_vars

\* ------------------------------- process_folder, then the group's curve
\* Lines 397-398: the curve of a group is built from the sessions table
\* and the length process_folder returned, at the step of 60 seconds; the
\* length is the larger one of the two groups, the other group being
\* empty (0) or one hour long.
OtherGroupMax == {0, HourSec}

CurveCall ==
    /\ pc = "returned"
    /\ \E other \in OtherGroupMax :
          max_seconds' = Max(max_video_seconds, other)
    /\ step' = CurveStepSec
    /\ pc' = "avg_cumulative_curve"
    /\ UNCHANGED <<by_day, curve>>
    /\ UNCHANGED <<analyzerVars, mainVars, binsVars, folderVars>>

NextGroup ==
    \/ NextFolder
    \/ CurveCall
    \/ CurveStart
    \/ CurveDay
    \/ CurveAverage

SpecGroup == InitFolder /\ [][NextGroup]_vars

\* ======================================================================
\* Hamster_stats.py: main
\* ======================================================================

\* Lines 362-363: the two folders, in the order they are processed.
GroupNames == <<"Meds", "NoMeds">>

\* The timeline files of main's folders: at most one row each.
MainFiles == TimelineFiles(GroupTickSec, 1, 1)

MainFolders == UNION {[1..n -> MainFiles] : n \in 0..MaxMainDays}

\* Line 371: df_meds.empty or df_nomeds.empty
BothEmpty(a, b) == a = <<>> /\ b = <<>>

EitherEmpty(a, b) == a = <<>> \/ b = <<>>

\* Lines 377-394: the saved tables and the plots made before the curves.
SavedTables ==
    <<"summary_meds.csv", "summary_nomeds.csv", "sessions_meds.csv",
      "sessions_nomeds.csv", "hourly_meds.csv", "hourly_nomeds.csv">>

\* plot_hourly_heatmap returns without a plot for an empty hourly table.
Heatmap(hourly, name) == IF hourly = <<>> THEN <<>> ELSE <<name>>

CorePlots(hourly_meds, hourly_nomeds) ==
    <<"daily_running_time.png", "avg_episode_duration.png",
      "episodes_per_day.png", "hourly_avg_minutes.png">>
    \o Heatmap(hourly_meds, "hourly_heatmap_meds.png")
    \o Heatmap(hourly_nomeds, "hourly_heatmap_nomeds.png")

\* Lines 400-406.
CurvePlots ==
    <<"cumulative_average_minutes.png", "episode_duration_hist.png",
      "daily_totals_boxplot.png">>

MainInit ==
    /\ pc = "main"
    /\ data_dir \in [Meds : MainFolders, NoMeds : MainFolders]
    /\ results = <<>>
    /\ avg_curves = <<>>
    /\ outputs = <<>>

\* Lines 366 and 369: process_folder is called on the next folder.
MainProcess ==
    /\ pc = "main"
    /\ Len(results) < 2
    /\ csv_files' = data_dir[GroupNames[Len(results) + 1]]
    /\ df' = <<>>
    /\ di' = 0
    /\ ri' = 0
    /\ daily_rows' = <<>>
    /\ sessions_all' = <<>>
    /\ max_video_seconds' = 0
    /\ daily_summary' = <<>>
    /\ sessions_df' = <<>>
    /\ hours_count' = 0
    /\ hourly_rows' = <<>>
    /\ hourly_long' = <<>>
    /\ pc' = "process_folder"
    /\ UNCHANGED <<analyzerVars, mainVars, binsVars, curveVars>>

\* Lines 366 and 369: the four values the call returned.
MainCollect ==
    /\ pc = "returned"
    /\ results' = Append(results,
                         [df |-> daily_summary,
                          sess |-> sessions_df,
                          hourly |-> hourly_long,
                          max_len |-> max_video_seconds])
    /\ pc' = "main"
    /\ UNCHANGED <<data_dir, avg_curves, outputs>>
    /\ UNCHANGED <<analyzerVars, binsVars, folderVars, curveVars>>

\* Lines 371-374: no valid data, main returns.
MainStop ==
    /\ pc = "main"
    /\ Len(results) = 2
    /\ EitherEmpty(results[1].df, results[2].df)
    /\ pc' = "main_stopped"
    /\ UNCHANGED <<analyzerVars, mainVars, binsVars, folderVars, curveVars>>

\* Lines 376-394: the tables are saved, the first plots are made.
MainSave ==
    /\ pc = "main"
    /\ Len(results) = 2
    /\ ~EitherEmpty(results[1].df, results[2].df)
    /\ outputs' = outputs \o SavedTables
                          \o CorePlots(results[1].hourly, results[2].hourly)
    /\ pc' = "main_curves"
    /\ UNCHANGED <<data_dir, results, avg_curves>>
    /\ UNCHANGED <<analyzerVars, binsVars, folderVars, curveVars>>

\* Lines 397-399: avg_cumulative_curve is called on the next sessions table.
MainCurveCall ==
    /\ pc = "main_curves"
    /\ Len(avg_curves) < 2
    /\ sessions_df' = results[Len(avg_curves) + 1].sess
    /\ max_seconds' = Max(results[1].max_len, results[2].max_len)
    /\ step' = CurveStepSec
    /\ pc' = "avg_cumulative_curve"
    /\ UNCHANGED <<by_day, curve>>
    /\ UNCHANGED <<csv_files, df, di, ri, daily_rows, sessions_all, max_video_seconds,
                   daily_summary, hours_count, hourly_rows, hourly_long>>
    /\ UNCHANGED <<analyzerVars, mainVars, binsVars>>

\* Lines 398-399: the curve the call returned.
MainCurveCollect ==
    /\ pc = "curve_returned"
    /\ avg_curves' = Append(avg_curves, curve)
    /\ pc' = "main_curves"
    /\ UNCHANGED <<data_dir, results, outputs>>
    /\ UNCHANGED <<analyzerVars, binsVars, folderVars, curveVars>>

\* Lines 400-406: the plot of the two curves and the last two plots.
MainCurvePlot ==
    /\ pc = "main_curves"
    /\ Len(avg_curves) = 2
    /\ outputs' = outputs \o CurvePlots
    /\ pc' = "main_report"
    /\ UNCHANGED <<data_dir, results, avg_curves>>
    /\ UNCHANGED <<analyzerVars, binsVars, folderVars, curveVars>>

\* Line 409: the comparison report.
MainReport ==
    /\ pc = "main_report"
    /\ outputs' = Append(outputs, "report")
    /\ pc' = "main_done"
    /\ UNCHANGED <<data_dir, results, avg_curves>>
    /\ UNCHANGED <<analyzerVars, binsVars, folderVars, curveVars>>

InitMain ==
    MainInit /\ AnalyzerIdle /\ BinsIdle /\ FolderIdle /\ CurveIdle

NextMain ==
    \/ MainProcess
    \/ NextFolder
    \/ MainCollect
    \/ MainStop
    \/ MainSave
    \/ MainCurveCall
    \/ CurveStart
    \/ CurveDay
    \/ CurveAverage
    \/ MainCurveCollect
    \/ MainCurvePlot
    \/ MainReport

SpecMain == InitMain /\ [][NextMain]_vars

\* ======================================================================
\* Properties of the analyzer (specification Spec)
\* ======================================================================

\* C1: for a non-empty sample sequence the emitted episodes (after grouping
\* and the min-streak pass) are a contiguous partition of the recording:
\* the first starts at the first sample's t_sec, the last ends at the last
\* sample's t_sec, and every episode ends where the next one starts.
C1_ContiguousPartition ==
    (pc = "done" /\ timeline # <<>>) =>
        /\ Len(cleaned) >= 1
        /\ cleaned[1][1] = timeline[1].t_sec
        /\ cleaned[Len(cleaned)][2] = timeline[Len(timeline)].t_sec
        /\ \A i \in 1..(Len(cleaned) - 1) : cleaned[i][2] = cleaned[i + 1][1]

\* A finished run with at least three episodes, one of them relabelled.
C1_Witness ==
    /\ pc = "done"
    /\ Len(cleaned) >= 3
    /\ \E i \in 1..Len(cleaned) : cleaned[i][3] # episodes[i][3]

\* C2: the min-streak pass relabels an episode to INACTIVE exactly when it
\* is ACTIVE and shorter than min_streak_sec; an ACTIVE episode as long as
\* min_streak_sec stays ACTIVE, an INACTIVE one is never relabelled, and
\* number, order and boundaries of the episodes are unchanged.
C2_MinStreakPass ==
    /\ Len(cleaned) <= Len(episodes)
    /\ (pc = "done" => Len(cleaned) = Len(episodes))
    /\ \A i \in 1..Len(cleaned) :
         /\ cleaned[i][1] = episodes[i][1]
         /\ cleaned[i][2] = episodes[i][2]
         /\ (episodes[i][3] = 0 => cleaned[i][3] = 0)
         /\ (episodes[i][3] = 1 =>
               cleaned[i][3] =
                 (IF episodes[i][2] - episodes[i][1] >= args.min_streak_sec
                  THEN 1 ELSE 0))

\* A finished run in which one ACTIVE episode lasting exactly
\* min_streak_sec was kept and a shorter one was relabelled.
C2_Witness ==
    /\ pc = "done"
    /\ args.min_streak_sec > 0
    /\ \E i \in 1..Len(cleaned) :
         /\ episodes[i][3] = 1
         /\ episodes[i][2] - episodes[i][1] = args.min_streak_sec
         /\ cleaned[i][3] = 1
    /\ \E i \in 1..Len(cleaned) :
         /\ episodes[i][3] = 1
         /\ cleaned[i][3] = 0

\* C3: a sample is recorded active iff motion_score >= motion_thresh and
\* blob_area >= min_blob; the decision uses nothing else.
C3_FrameClassifier ==
    \A i \in 1..Len(timeline) :
        /\ timeline[i].in_wheel \in {0, 1}
        /\ (timeline[i].in_wheel = 1) <=>
              (/\ timeline[i].motion_score >= args.motion_thresh
               /\ timeline[i].blob_area >= args.min_blob)

\* One timeline holding a sample with only the motion signal below its
\* threshold, one with only the blob area below, and an active one.
C3_Witness ==
    /\ \E i \in 1..Len(timeline) :
         /\ timeline[i].motion_score < args.motion_thresh
         /\ timeline[i].blob_area >= args.min_blob
         /\ timeline[i].in_wheel = 0
    /\ \E i \in 1..Len(timeline) :
         /\ timeline[i].motion_score >= args.motion_thresh
         /\ timeline[i].blob_area < args.min_blob
         /\ timeline[i].in_wheel = 0
    /\ \E i \in 1..Len(timeline) : timeline[i].in_wheel = 1

\* C18 as claimed: every emitted episode has end_sec > start_sec, the final
\* episode of the day included.
C18_EndAfterStart ==
    \A i \in 1..Len(cleaned) : cleaned[i][2] > cleaned[i][1]

\* The grouping is over: every raw episode is in the list.
Grouped == pc \in {"clean", "done"}

\* C18 amended: every emitted episode has end_sec >= start_sec and every
\* episode but the final one has end_sec > start_sec; the final episode has
\* end_sec = start_sec exactly when the day has a single sample or its last
\* sample's state differs from the state of the sample before it.
C18_OnlyFinalMayBeEmpty ==
    /\ \A i \in 1..Len(cleaned) : cleaned[i][2] >= cleaned[i][1]
    /\ \A i \in 1..Len(cleaned) :
          i < Len(episodes) => cleaned[i][2] > cleaned[i][1]
    /\ pc = "group_loop" =>
          \A i \in 1..Len(episodes) : episodes[i][2] > episodes[i][1]
    /\ (pc = "done" /\ timeline # <<>>) =>
          LET n == Len(timeline)
              final == cleaned[Len(cleaned)]
          IN (final[2] = final[1]) <=>
                (n = 1 \/ timeline[n].in_wheel # timeline[n - 1].in_wheel)

\* A finished run of three episodes whose final one has no length, and
\* whose other two have.
C18_Witness ==
    /\ pc = "done"
    /\ Len(cleaned) = 3
    /\ cleaned[3][2] = cleaned[3][1]
    /\ cleaned[1][2] > cleaned[1][1]
    /\ cleaned[2][2] > cleaned[2][1]

\* The samples at which the state changes (1-based positions).
Changes ==
    {i \in 2..Len(timeline) : timeline[i].in_wheel # timeline[i - 1].in_wheel}

\* The position of the first sample of the k-th run.
RunStart(k) ==
    IF k = 1 THEN 1
    ELSE CHOOSE i \in Changes : Cardinality({j \in Changes : j < i}) = k - 2

\* C19: the raw episodes are the run-length encoding of the samples: there
\* is one per run, 1 + the number of state changes in all; the k-th starts
\* at the t_sec of its run's first sample, carries that sample's state and
\* ends at the t_sec of the next run's first sample (of the last sample for
\* the final run); consecutive raw episodes carry different states.
C19_RunLengthEncoding ==
    Grouped =>
        /\ timeline = <<>> => episodes = <<>>
        /\ timeline # <<>> =>
              /\ Len(episodes) = 1 + Cardinality(Changes)
              /\ \A k \in 1..Len(episodes) :
                    /\ episodes[k][1] = timeline[RunStart(k)].t_sec
                    /\ episodes[k][3] = timeline[RunStart(k)].in_wheel
                    /\ episodes[k][2] =
                          (IF k < Len(episodes)
                           THEN timeline[RunStart(k + 1)].t_sec
                           ELSE timeline[Len(timeline)].t_sec)
              /\ \A k \in 1..(Len(episodes) - 1) :
                    episodes[k][3] # episodes[k + 1][3]

\* Samples F, T, T at t = 0, 1, 2 have been grouped into (0, 1, INACTIVE)
\* and (1, 2, ACTIVE).
C19_Witness ==
    /\ Grouped
    /\ Len(timeline) = 3
    /\ timeline[1].in_wheel = 0
    /\ timeline[2].in_wheel = 1
    /\ timeline[3].in_wheel = 1
    /\ episodes = <<(<<0, 1, 0>>), (<<1, 2, 1>>)>>

\* ======================================================================
\* Properties of the timeline file written and read back (SpecRoundTrip)
\* ======================================================================

\* The first loop of process_folder has loaded the written file.
FileLoaded == pc = "loop1" /\ di = 2

\* The loaded table gives every episode its own start, end and length.
ReadBack ==
    /\ Len(df) = Len(cleaned)
    /\ \A i \in 1..Len(cleaned) :
          /\ df[i].start_sec = cleaned[i][1]
          /\ df[i].end_sec = cleaned[i][2]
          /\ df[i].duration_seconds = cleaned[i][2] - cleaned[i][1]

\* C20: every row the analyzer writes is read back by the stats loader as
\* start_sec = s, end_sec = e and duration_seconds = e - s, and the loader
\* raises no error, whatever the length of the recording.
C20_RoundTrip ==
    /\ pc # "ValueError"
    /\ FileLoaded => ReadBack

\* The round trip of the recordings that end before 24 hours.
RoundTripBelowDay ==
    (\A i \in 1..Len(cleaned) : cleaned[i][2] < DaySec) =>
        /\ pc # "ValueError"
        /\ FileLoaded => ReadBack

\* ======================================================================
\* Properties of the segmentation run on its own output (SpecRerun)
\* ======================================================================

\* The times at which an episode of the list starts or ends.
Boundaries(eps) ==
    {eps[i][1] : i \in 1..Len(eps)} \cup {eps[i][2] : i \in 1..Len(eps)}

\* An episode list with every group of adjacent same-state episodes merged
\* into one episode.
RECURSIVE Coalesce(_)
Coalesce(eps) ==
    IF Len(eps) <= 1 THEN eps
    ELSE LET rest == Coalesce(Tail(eps))
         IN IF eps[1][3] = rest[1][3]
            THEN <<(<<eps[1][1], rest[1][2], eps[1][3]>>)>> \o Tail(rest)
            ELSE <<eps[1]>> \o rest

NoAdjacentSame(eps) ==
    \A i \in 1..(Len(eps) - 1) : eps[i][3] # eps[i + 1][3]

\* The second run, on the per-second samples of the first run's output,
\* has finished.
RerunDone == pc = "done" /\ runs = 2

\* C17 as claimed: the second run yields the same episode boundaries as
\* the first run.
C17_SameBoundaries ==
    RerunDone => Boundaries(cleaned) = Boundaries(first_run)

\* C17 amended: the second run yields the first run's episodes with every
\* group of adjacent same-state episodes merged into one; the state of
\* every second is the same, every boundary of the second run is a boundary
\* of the first, and the episodes are those of the first run exactly when
\* the first run emitted no two adjacent episodes of the same state.
C17_RerunCoalesces ==
    RerunDone =>
        /\ cleaned = Coalesce(first_run)
        /\ PerSecondSamples(cleaned) = PerSecondSamples(first_run)
        /\ Boundaries(cleaned) \subseteq Boundaries(first_run)
        /\ (cleaned = first_run) <=> NoAdjacentSame(first_run)

\* A second run has finished whose input had a relabelled ACTIVE episode
\* between two INACTIVE ones: three episodes have become one.
C17_Witness ==
    /\ RerunDone
    /\ Len(first_run) = 3
    /\ first_run[2][2] > first_run[2][1]
    /\ Len(cleaned) = 1

\* ======================================================================
\* Properties of add_interval_to_hour_bins (SpecBins and SpecBinsFair)
\* ======================================================================

\* Seconds of [s, s + d) that lie in hour k, [3600 k, 3600 (k + 1)).
Overlap(s, d, k) ==
    LET lo == IF s >= HourSec * k THEN s ELSE HourSec * k
        hi == IF s + d <= HourSec * (k + 1) THEN s + d ELSE HourSec * (k + 1)
    IN IF hi > lo THEN hi - lo ELSE 0

\* What the call that just returned added to each bin.
Increase == [k \in DOMAIN hour_bins |-> hour_bins[k] - bins_before[k]]

CallReturned == pc = "idle" /\ calls > 0

\* C4: a call with start_s + dur_s <= 3600 H adds to every bucket k exactly
\* the seconds of [start_s, start_s + dur_s) that lie in hour k; the
\* increases sum to dur_s.
C4_ExactSplit ==
    (CallReturned /\ start_s + dur_s <= HourSec * Len(hour_bins)) =>
        /\ DOMAIN bins_before = DOMAIN hour_bins
        /\ \A k \in DOMAIN hour_bins :
              Increase[k] = Overlap(start_s, dur_s, k - 1)
        /\ SetSum(Increase, DOMAIN hour_bins) = dur_s

\* The call of the example: 200 seconds from 3500, split 100 / 100.
C4_Witness ==
    /\ CallReturned
    /\ start_s = 3500
    /\ dur_s = 200
    /\ Len(hour_bins) >= 2
    /\ Increase[1] = 100
    /\ Increase[2] = 100

\* C6: a call whose interval runs past the horizon 3600 H raises nothing,
\* adds to the buckets exactly the part of the interval before the horizon
\* (nothing when it starts at or after the horizon) and touches no index
\* outside [0, H).
C6_HorizonOverflow ==
    /\ pc # "IndexError"
    /\ (CallReturned /\ start_s + dur_s > HourSec * Len(hour_bins)) =>
          /\ DOMAIN hour_bins = DOMAIN bins_before
          /\ \A k \in DOMAIN hour_bins :
                Increase[k] = Overlap(start_s, dur_s, k - 1)
          /\ SetSum(Increase, DOMAIN hour_bins) =
                (IF start_s >= HourSec * Len(hour_bins) THEN 0
                 ELSE HourSec * Len(hour_bins) - start_s)

\* A returned call that started before the horizon and ended after it,
\* on bins that already held seconds of an earlier call.
C6_Witness ==
    /\ CallReturned
    /\ calls = 2
    /\ start_s < HourSec * Len(hour_bins)
    /\ start_s + dur_s > HourSec * Len(hour_bins) + HourSec
    /\ \E k \in DOMAIN hour_bins : bins_before[k] > 0
    /\ \E k \in DOMAIN hour_bins : Increase[k] > 0

\* A loop iteration is about to run.
InLoop == pc = "add_interval" /\ remaining > 0

\* C21: add_interval_to_hour_bins always terminates: every loop iteration
\* takes at least one second off the remaining duration (and moves the
\* cursor by as much), the remaining duration never drops below 0, and
\* every call returns with a remaining duration of exactly 0, also when
\* the cursor is at or beyond the horizon and no bin changes.
C21_Terminates ==
    /\ [][InLoop =>
             /\ remaining - remaining' >= 1
             /\ cur' - cur = remaining - remaining'
             /\ remaining' >= 0]_vars
    /\ (pc = "add_interval") ~> (pc = "idle" /\ remaining = 0)

\* A call of several hours that began at or beyond the horizon has
\* returned and left every bin as it was.
C21_Witness ==
    /\ CallReturned
    /\ start_s >= HourSec * Len(hour_bins)
    /\ dur_s > HourSec
    /\ remaining = 0
    /\ hour_bins = bins_before

\* ======================================================================
\* Properties of process_folder (specifications SpecFolder and SpecDay)
\* ======================================================================

FileRows(d) == LoadDayCsv(csv_files[d])

ActiveIdx(d) == {i \in 1..Len(FileRows(d)) : FileRows(d)[i].state = "IN WHEEL"}

DurationOf(d) == [i \in 1..Len(FileRows(d)) |-> FileRows(d)[i].duration_seconds]

\* The hourly rows of day d, in table order.
HourlyOf(table, d) == SelectSeq(table, LAMBDA r : r.date = d)

ActiveSecondsOf(d) ==
    LET rows == HourlyOf(hourly_long, d)
    IN SetSum([i \in 1..Len(rows) |-> rows[i].active_seconds], 1..Len(rows))

SummaryOf(d) == CHOOSE r \in {daily_summary[i] : i \in 1..Len(daily_summary)} :
                    r.date = d

\* Largest end_sec over all rows of all files, 0 when there is no row.
GroupMaxEnd ==
    LET ends == {0} \cup UNION {{FileRows(d)[i].end_sec : i \in 1..Len(FileRows(d))} :
                                d \in 1..Len(csv_files)}
    IN CHOOSE m \in ends : \A e \in ends : e <= m

Returned == pc = "returned" /\ csv_files # <<>>

\* C5: for every day whose ACTIVE episodes all end at or before 3600 H, the
\* day's hourly active_seconds sum to its total_running_time_s.
C5_HourlySumIsTotal ==
    Returned =>
        \A d \in 1..Len(csv_files) :
            (\A i \in ActiveIdx(d) :
                 FileRows(d)[i].end_sec <= HourSec * hours_count)
            => ActiveSecondsOf(d) = SummaryOf(d).total_running_time_s

\* A returned folder with a day whose ACTIVE time is spread over two hours.
C5_Witness ==
    /\ Returned
    /\ \E d \in 1..Len(csv_files) :
         /\ SummaryOf(d).total_running_time_s > 0
         /\ Cardinality({i \in 1..Len(hourly_long) :
                /\ hourly_long[i].date = d
                /\ hourly_long[i].active_seconds > 0}) >= 2

\* The hours of the hourly rows of day d, in table order.
HoursOf(d) ==
    LET rows == HourlyOf(hourly_long, d)
    IN [i \in 1..Len(rows) |-> rows[i].hour]

C8_BinWithinHour ==
    /\ \A k \in DOMAIN hour_bins : hour_bins[k] >= 0 /\ hour_bins[k] <= HourSec
    /\ \A i \in 1..Len(hourly_rows) :
          /\ hourly_rows[i].active_seconds >= 0
          /\ hourly_rows[i].active_seconds <= HourSec
    /\ \A i \in 1..Len(hourly_long) :
          /\ hourly_long[i].active_seconds >= 0
          /\ hourly_long[i].active_seconds <= HourSec

\* Two ACTIVE episodes of one day have gone into the same bin, the second
\* one running on into the next hour.
C8_Witness ==
    /\ pc = "rows"
    /\ ri = 3
    /\ Len(hour_bins) = 2
    /\ hour_bins[1] > TickSec
    /\ hour_bins[2] > 0
    /\ start_s < HourSec
    /\ start_s + dur_s > HourSec

\* C9: the daily summary row of a day has total = sum of the durations of
\* its ACTIVE episodes, episodes = their number, average = total / number
\* (0 without ACTIVE episode), longest = the largest duration (0 without
\* ACTIVE episode); a day without ACTIVE episode gets a row of zeros.
C9_DailySummary ==
    /\ pc \in {"loop2", "rows", "add_interval", "returned"} =>
          Len(daily_rows) = Len(csv_files)
    /\ Returned => Len(daily_summary) = Len(csv_files)
    /\ \A d \in 1..Len(daily_rows) :
          LET row == daily_rows[d]
              n == Cardinality(ActiveIdx(d))
              total == SetSum(DurationOf(d), ActiveIdx(d))
          IN /\ row.date = d
             /\ row.total_running_time_s = total
             /\ row.episodes = n
             /\ row.avg_episode_duration_s.den > 0
             /\ row.avg_episode_duration_s.num * (IF n > 0 THEN n ELSE 1)
                   = (IF n > 0 THEN total ELSE 0) * row.avg_episode_duration_s.den
             /\ n = 0 => row.longest_episode_s = 0
             /\ n > 0 =>
                   /\ \E i \in ActiveIdx(d) : DurationOf(d)[i] = row.longest_episode_s
                   /\ \A i \in ActiveIdx(d) : DurationOf(d)[i] <= row.longest_episode_s
    /\ Returned => \A d \in 1..Len(csv_files) : SummaryOf(d) = daily_rows[d]

\* A returned folder whose day has two ACTIVE episodes of different
\* durations.
C9_Witness ==
    /\ Returned
    /\ \E d \in 1..Len(csv_files) :
         /\ Cardinality(ActiveIdx(d)) = 2
         /\ SummaryOf(d).episodes = 2
         /\ SummaryOf(d).total_running_time_s = 3 * TickSec
         /\ SummaryOf(d).longest_episode_s = 2 * TickSec

\* process_folder has ended, by a return or by an exception.
FolderEnded == pc \in {"returned", "ValueError"}

\* The files of the folder that load_day_csv accepts.
ValidDays == {d \in 1..Len(csv_files) : ~LoadRaises(csv_files[d])}

\* C16: a file that fails to load is confined to its day: process_folder
\* does not end in the loader's error while the folder has a valid day, and
\* it returns, for every valid day of the folder, its daily-summary row, its
\* ACTIVE rows in the sessions table and its hourly rows.
C16_LoadFailureConfined ==
    /\ pc = "ValueError" => ValidDays = {}
    /\ FolderEnded =>
          \A d \in ValidDays :
              /\ \E i \in 1..Len(daily_summary) :
                    /\ daily_summary[i].date = d
                    /\ daily_summary[i].total_running_time_s =
                          SetSum(DurationOf(d), ActiveIdx(d))
              /\ Cardinality({i \in 1..Len(sessions_df) : sessions_df[i].date = d})
                    = Cardinality(ActiveIdx(d))
              /\ \E i \in 1..Len(hourly_long) : hourly_long[i].date = d

\* ======================================================================
\* Properties of avg_cumulative_curve (specification SpecCurve)
\* ======================================================================

CurveReturned == pc = "curve_returned" /\ sessions_df # <<>>

\* The grid starts at 0, its points are multiples of step and consecutive
\* points differ by step.
UniformGrid ==
    /\ Len(curve) >= 1
    /\ curve[1].t_sec = 0
    /\ \A i \in 1..Len(curve) : curve[i].t_sec % step = 0
    /\ \A i \in 1..(Len(curve) - 1) : curve[i + 1].t_sec - curve[i].t_sec = step

\* C10 as claimed: the t_sec series is 0, step, 2 step, ..., max_seconds;
\* its last point equals max_seconds and no point lies beyond max_seconds.
C10_GridEndsAtMax ==
    CurveReturned =>
        /\ UniformGrid
        /\ curve[Len(curve)].t_sec = max_seconds
        /\ \A i \in 1..Len(curve) : curve[i].t_sec <= max_seconds

\* C10 amended: the t_sec series is the uniform grid 0, step, 2 step, ...
\* up to the smallest multiple of step that is >= max_seconds; the last
\* point equals max_seconds when step divides max_seconds and otherwise
\* lies beyond it by less than step.
C10_GridCoversMax ==
    CurveReturned =>
        /\ UniformGrid
        /\ curve[Len(curve)].t_sec >= max_seconds
        /\ curve[Len(curve)].t_sec < max_seconds + step
        /\ (max_seconds % step = 0 => curve[Len(curve)].t_sec = max_seconds)

\* A returned curve of several points whose last point is beyond
\* max_seconds.
C10_Witness ==
    /\ CurveReturned
    /\ Len(curve) >= 3
    /\ curve[Len(curve)].t_sec > max_seconds

\* C11: every per-day cumulative curve is non-decreasing along the grid,
\* cum[i] <= cum[i + 1], and so is the averaged avg_cum_sec series.
C11_CurveNonDecreasing ==
    /\ \A d \in 1..Len(by_day) :
          \A i \in 1..(Len(by_day[d].cum) - 1) :
              by_day[d].cum[i] <= by_day[d].cum[i + 1]
    /\ \A i \in 1..(Len(curve) - 1) :
          /\ curve[i].avg_cum_sec.den > 0
          /\ curve[i + 1].avg_cum_sec.den > 0
          /\ curve[i].avg_cum_sec.num * curve[i + 1].avg_cum_sec.den
                <= curve[i + 1].avg_cum_sec.num * curve[i].avg_cum_sec.den

\* A returned average over two days, one of whose curves rises and then
\* stays level.
C11_Witness ==
    /\ CurveReturned
    /\ Len(by_day) = 2
    /\ \E d \in 1..2 : \E i, j \in 1..(Len(by_day[d].cum) - 1) :
          /\ i < j
          /\ by_day[d].cum[i] < by_day[d].cum[i + 1]
          /\ by_day[d].cum[j] = by_day[d].cum[j + 1]
    /\ \E i \in 1..(Len(curve) - 1) :
          curve[i].avg_cum_sec.num < curve[i + 1].avg_cum_sec.num

\* The rows of the sessions table that carry the date of by_day[d].
DayRows(d) == SelectSeq(sessions_df, LAMBDA r : r.date = by_day[d].date)

\* The dates handled so far whose group is a single ACTIVE interval.
OneIntervalDays == {d \in 1..Len(by_day) : Len(DayRows(d)) = 1}

\* The interval of such a day, clipped to [0, max_seconds].
ClippedStart(d) == DayRows(d)[1].start_sec

ClippedEnd(d) ==
    LET end == Min(max_seconds,
                   DayRows(d)[1].start_sec + DayRows(d)[1].duration_seconds)
    IN Max(end, ClippedStart(d))

\* The credit the day's grid received: the last value of its cumulative
\* curve.
CreditOf(d) == Last(by_day[d].cum)

\* C12 as claimed: the credit of an ACTIVE interval is an over-count of its
\* clipped duration bounded by step: credit >= end - start and
\* credit - (end - start) <= step.
C12_OverCountBound ==
    \A d \in OneIntervalDays :
        /\ CreditOf(d) >= ClippedEnd(d) - ClippedStart(d)
        /\ CreditOf(d) - (ClippedEnd(d) - ClippedStart(d)) <= step

\* C12 amended: the credit is step * (floor(end / step) - floor(start / step));
\* it differs from the clipped duration by (start mod step) - (end mod step),
\* hence by less than step in either direction: it can over-count and it
\* can under-count.
C12_CreditWithinStep ==
    \A d \in OneIntervalDays :
        LET start == ClippedStart(d)
            end == ClippedEnd(d)
        IN /\ CreditOf(d) = step * ((end \div step) - (start \div step))
           /\ CreditOf(d) - (end - start) = (start % step) - (end % step)
           /\ CreditOf(d) - (end - start) < step
           /\ (end - start) - CreditOf(d) < step

\* A returned curve over two days of one interval each: one interval is
\* credited more than its duration, the other one less.
C12_Witness ==
    /\ CurveReturned
    /\ \E d \in OneIntervalDays : CreditOf(d) > ClippedEnd(d) - ClippedStart(d)
    /\ \E d \in OneIntervalDays : CreditOf(d) < ClippedEnd(d) - ClippedStart(d)

\* ======================================================================
\* Properties of a group: process_folder and then avg_cumulative_curve
\* (specification SpecGroup)
\* ======================================================================

\* The cumulative value of day d of the folder at grid cell i: the value of
\* its curve, 0 in every cell for a day without ACTIVE episode.
DayCumAt(d, i) ==
    IF \E k \in 1..Len(by_day) : by_day[k].date = d
    THEN by_day[CHOOSE k \in 1..Len(by_day) : by_day[k].date = d].cum[i]
    ELSE 0

GroupCurveReturned == pc = "curve_returned" /\ csv_files # <<>>

\* C13: avg_cum_sec at each grid cell is the sum of the per-day cumulative
\* values at that cell divided by the number of days of the group, a day
\* without ACTIVE episode counting with an all-zero curve.
C13_AverageOverAllDays ==
    GroupCurveReturned =>
        \A i \in 1..Len(curve) :
            /\ curve[i].avg_cum_sec.den > 0
            /\ curve[i].avg_cum_sec.num * Len(csv_files) =
                  SetSum([d \in 1..Len(csv_files) |-> DayCumAt(d, i)],
                         1..Len(csv_files)) * curve[i].avg_cum_sec.den

\* C14: a folder without timeline file makes process_folder return an empty
\* daily summary, empty sessions and hourly tables and length 0, and
\* avg_cumulative_curve return an empty series; nothing is raised.
C14_EmptyGroup ==
    csv_files = <<>> =>
        /\ pc \in {"process_folder", "returned", "avg_cumulative_curve",
                    "curve_returned"}
        /\ daily_summary = <<>>
        /\ sessions_df = <<>>
        /\ hourly_long = <<>>
        /\ max_video_seconds = 0
        /\ curve = <<>>

\* The curve of a folder without file has been asked for and has come
\* back.
C14_Witness ==
    /\ csv_files = <<>>
    /\ pc = "curve_returned"
    /\ step = CurveStepSec

\* ======================================================================
\* Properties of the stats main flow (specification SpecMain)
\* ======================================================================

BothProcessed == Len(results) = 2

\* C15: if either group's daily summary is empty after both folders are
\* processed, the run stops there: no table is written, no plot is made, no
\* report is printed; outputs exist only when both groups are non-empty.
C15_StopWhenEitherEmpty ==
    /\ (BothProcessed /\ (results[1].df = <<>> \/ results[2].df = <<>>)) =>
          /\ outputs = <<>>
          /\ avg_curves = <<>>
          /\ pc \in {"main", "main_stopped"}
    /\ outputs # <<>> =>
          /\ BothProcessed
          /\ results[1].df # <<>>
          /\ results[2].df # <<>>
          /\ data_dir.Meds # <<>>
          /\ data_dir.NoMeds # <<>>

\* The run has stopped with one folder empty and a day of activity in the
\* other one.
C15_Witness ==
    /\ pc = "main_stopped"
    /\ results[1].df # <<>>
    /\ results[1].sess # <<>>
    /\ results[2].df = <<>>
    /\ outputs = <<>>

====
